---- MODULE Spec2Model ----
(***************************************************************************)
(* MidiFileSequencer of rustysynth (src/rustysynth/src/midifile_sequencer.rs) *)
(* as a state machine.  The fields of the struct are the variables; play,  *)
(* stop and set_speed are one action each.  render and process_events hold *)
(* loops whose termination is itself in question, so each loop iteration   *)
(* is a step and pc is the position of the call inside render.             *)
(*                                                                         *)
(* Time is counted in ticks: BlockDuration ticks is the length of one      *)
(* synthesizer block (block_size / sample_rate) and speed is a whole       *)
(* number, so that speed * BlockDuration is the exact increment of line 72. *)
(***************************************************************************)
EXTENDS Integers, Sequences, FiniteSets

\* ---------------------------------------------------------------- bounds
MaxLen == 3          \* longest sequence handed to play
MaxTime == 1         \* latest timestamp of a message, in ticks
MaxSpeed == 2        \* largest speed handed to set_speed
MaxFrames == 3       \* longest buffer handed to render
MaxClock == 3        \* render is not called again once current_time is past this
MaxLog == 8          \* longest recorded list of renderer calls
DispatchCap == 2     \* the dispatches of one message are counted up to this

\* synthesizer.block_size (frames per block) and the duration of a block in ticks
BlockSize == 2
BlockDuration == 1

\* ---------------------------------------------------------------- messages
\* crate::midifile::Message: Normal carries status, data1, data2; the other
\* variants carry nothing.  TempoChange stands for every variant the match of
\* process_events has no arm for.
NormalMsg == [kind |-> "Normal", status |-> 147, data1 |-> 60, data2 |-> 100]
LoopStartMsg == [kind |-> "LoopStart"]
LoopEndMsg == [kind |-> "LoopEnd"]
OtherMsg == [kind |-> "TempoChange"]
Messages == {NormalMsg, LoopStartMsg, LoopEndMsg, OtherMsg}

\* status & 0x0F and status & 0xF0 of an 8-bit status byte
Channel(status) == status % 16
Command(status) == status - (status % 16)

\* ---------------------------------------------------------------- sequences
NonDecreasing(t) == \A i \in 1..(Len(t) - 1) : t[i] <= t[i + 1]

\* loop-end time >= loop-start time, equality included
LoopOrdered(f) ==
  \A i, j \in 1..Len(f.messages) :
    (f.messages[i].kind = "LoopStart" /\ f.messages[j].kind = "LoopEnd")
      => f.times[j] >= f.times[i]

\* A MidiFile: times and messages paired 1:1.
MidiFiles ==
  UNION { { f \in [times : [1..n -> 0..MaxTime], messages : [1..n -> Messages]] :
              NonDecreasing(f.times) /\ LoopOrdered(f) } : n \in 0..MaxLen }

\* ---------------------------------------------------------------- renderer calls
NoCall == [op |-> "none"]
ResetCall == [op |-> "reset"]
NoteOffAllCall == [op |-> "note_off_all", immediate |-> FALSE]
RenderFrames(n) == [op |-> "render", frames |-> n]
MidiCall(m) ==
  [op |-> "process_midi_message", channel |-> Channel(m.status),
   command |-> Command(m.status), data1 |-> m.data1, data2 |-> m.data2]

\* ---------------------------------------------------------------- state
VARIABLES
  speed,         \* f64 speed, a whole number of ticks per block tick
  midi_file,     \* Option<Arc<MidiFile>>: <<>> is None, <<f>> is Some(f)
  play_loop,
  block_wrote,
  current_time,
  msg_index,     \* 0-based, as in the source
  loop_index,
  pc,            \* "idle" between calls, else the position inside render
  left_length,   \* render's left.len()
  wrote,         \* render's local wrote
  call,          \* the call the last step made on the synthesizer
  frames,        \* observer: frames rendered since play (counted when probe is on)
  dispatched,    \* observer: how often the match at line 101 ran on each index since play
  log,           \* observer: the renderer calls of the render calls under comparison
  probe          \* observer: which observers run, and the chunking comparison's notes

fields == <<speed, midi_file, play_loop, block_wrote, current_time, msg_index, loop_index>>
vars == <<speed, midi_file, play_loop, block_wrote, current_time, msg_index, loop_index,
          pc, left_length, wrote, call, frames, dispatched, log, probe>>

Bound == midi_file # <<>>
File == midi_file[1]
NumMessages == Len(File.messages)
\* midi_file.times[i] and midi_file.messages[i] for a 0-based i
TimeAt(i) == File.times[i + 1]
MessageAt(i) == File.messages[i + 1]
InBounds(i) == i < NumMessages

Min(a, b) == IF a <= b THEN a ELSE b

\* ---------------------------------------------------------------- observers
\* frames saturates at FrameCap, which no session with speed > 0 and no loop reaches.
FrameCap == BlockSize * (MaxClock + 2) + MaxFrames
ProbeOff ==
  [mode |-> "off", start |-> <<>>, total |-> 0, left |-> 0, calls |-> 0, single |-> <<>>]
Recording == probe.mode \in {"single", "chunks"}

\* The log keeps the order of the calls; frames rendered back to back are one entry.
Merge(l, c) ==
  IF c.op = "none" THEN l
  ELSE IF c.op = "render" /\ Len(l) > 0 /\ l[Len(l)].op = "render"
    THEN [l EXCEPT ![Len(l)] = RenderFrames(l[Len(l)].frames + c.frames)]
  ELSE IF Len(l) < MaxLog THEN Append(l, c)
  ELSE l

Emit(c) ==
  /\ call' = c
  /\ log' = IF Recording THEN Merge(log, c) ELSE log

Counted(n) == frames' = IF probe.mode = "off" THEN frames ELSE Min(frames + n, FrameCap)

\* dispatched counts up to DispatchCap, and not under the chunking comparison.
NoneDispatched == [i \in 0..(MaxLen - 1) |-> 0]
Tracking == probe.mode \in {"off", "session"}
DispatchedOnceMore(i) == [dispatched EXCEPT ![i] = Min(@ + 1, DispatchCap)]

\* ---------------------------------------------------------------- new
Init ==
  /\ speed = 1
  /\ midi_file = <<>>
  /\ play_loop = FALSE
  /\ block_wrote = 0
  /\ current_time = 0
  /\ msg_index = 0
  /\ loop_index = 0
  /\ pc = "idle"
  /\ left_length = 0
  /\ wrote = 0
  /\ call = NoCall
  /\ frames = 0
  /\ dispatched = NoneDispatched
  /\ log = <<>>
  /\ probe = ProbeOff

\* ---------------------------------------------------------------- play, stop
PlayKeepingBlockProgress(f, looping) ==
  /\ pc = "idle"
  /\ midi_file' = <<f>>
  /\ play_loop' = looping
  /\ current_time' = 0
  /\ msg_index' = 0
  /\ loop_index' = 0
  /\ Emit(ResetCall)
  /\ frames' = 0
  /\ dispatched' = NoneDispatched
  /\ UNCHANGED <<speed, block_wrote, pc, left_length, wrote>>
  /\ UNCHANGED probe

PlayKeepingAnchor(f, looping) ==
  /\ pc = "idle"
  /\ midi_file' = <<f>>
  /\ play_loop' = looping
  /\ block_wrote' = BlockSize
  /\ current_time' = 0
  /\ msg_index' = 0
  /\ Emit(ResetCall)
  /\ frames' = 0
  /\ dispatched' = NoneDispatched
  /\ UNCHANGED <<speed, loop_index, pc, left_length, wrote>>
  /\ UNCHANGED probe

\* Lines 42-53.
Play(f, looping) ==
  /\ pc = "idle"
  /\ midi_file' = <<f>>
  /\ play_loop' = looping
  /\ block_wrote' = BlockSize
  /\ current_time' = 0
  /\ msg_index' = 0
  /\ loop_index' = 0
  /\ Emit(ResetCall)
  /\ frames' = 0
  /\ dispatched' = NoneDispatched
  /\ UNCHANGED <<speed, pc, left_length, wrote>>
  /\ UNCHANGED probe

StopResettingCursor ==
  /\ pc = "idle"
  /\ midi_file' = <<>>
  /\ current_time' = 0
  /\ msg_index' = 0
  /\ Emit(ResetCall)
  /\ UNCHANGED <<speed, play_loop, block_wrote, loop_index, pc, left_length, wrote,
                 frames, dispatched>>
  /\ UNCHANGED probe

\* Lines 55-58.
Stop ==
  /\ pc = "idle"
  /\ midi_file' = <<>>
  /\ Emit(ResetCall)
  /\ UNCHANGED <<speed, play_loop, block_wrote, current_time, msg_index, loop_index,
                 pc, left_length, wrote, frames, dispatched>>
  /\ UNCHANGED probe

\* ---------------------------------------------------------------- set_speed
SetSpeedStoredFirst(value) ==
  /\ speed' = value
  /\ pc' = "panic_speed"
  /\ Emit(NoCall)
  /\ UNCHANGED <<midi_file, play_loop, block_wrote, current_time, msg_index, loop_index,
                 left_length, wrote, frames, dispatched>>

\* Lines 169-171.
SetSpeedRejected(value) ==
  /\ pc' = "panic_speed"
  /\ Emit(NoCall)
  /\ UNCHANGED <<fields, left_length, wrote, frames, dispatched>>

SetSpeed(value) ==
  /\ pc = "idle"
  /\ IF value < 0
       THEN SetSpeedRejected(value)
       ELSE /\ speed' = value
            /\ Emit(NoCall)
            /\ UNCHANGED <<midi_file, play_loop, block_wrote, current_time, msg_index,
                           loop_index, pc, left_length, wrote, frames, dispatched>>
  /\ UNCHANGED probe

\* ---------------------------------------------------------------- end_of_sequence, get_position
end_of_sequence == IF midi_file = <<>> THEN TRUE ELSE msg_index = NumMessages
get_position == current_time

\* ---------------------------------------------------------------- render
\* Line 62: the buffers differ in length.
RenderRejected(l, r) ==
  /\ pc' = "panic_buffers"
  /\ Emit(NoCall)
  /\ UNCHANGED <<fields, left_length, wrote, frames, dispatched>>

\* Lines 66-67: the call is accepted and stands at the head of the while loop.
RenderAcceptedAsNewBlock(l) ==
  /\ left_length' = l
  /\ wrote' = 0
  /\ block_wrote' = BlockSize
  /\ pc' = "render"
  /\ Emit(NoCall)
  /\ UNCHANGED <<speed, midi_file, play_loop, current_time, msg_index, loop_index, frames, dispatched>>

RenderAccepted(l) ==
  /\ left_length' = l
  /\ wrote' = 0
  /\ pc' = "render"
  /\ Emit(NoCall)
  /\ UNCHANGED <<fields, frames, dispatched>>

RenderCall(l, r) ==
  /\ pc = "idle"
  /\ current_time <= MaxClock
  /\ IF l # r THEN RenderRejected(l, r) ELSE RenderAccepted(l)

\* Line 68 false: the buffers are full and render returns.
RenderReturn ==
  /\ pc = "render"
  /\ ~(wrote < left_length)
  /\ pc' = "idle"
  /\ left_length' = 0
  /\ wrote' = 0
  /\ Emit(NoCall)
  /\ UNCHANGED <<fields, frames, dispatched>>
  /\ UNCHANGED probe

\* Lines 69-70 and 91-94: a block starts; process_events returns at once when no
\* file is bound.
BeginBlockScanningUnbound ==
  /\ pc = "render"
  /\ wrote < left_length
  /\ block_wrote = BlockSize
  /\ IF Bound
       THEN /\ pc' = "events"
            /\ Emit(NoCall)
       ELSE /\ pc' = "advance"
            /\ Emit(IF play_loop THEN NoteOffAllCall ELSE NoCall)
  /\ UNCHANGED <<fields, left_length, wrote, frames, dispatched>>
  /\ UNCHANGED probe

BeginBlock ==
  /\ pc = "render"
  /\ wrote < left_length
  /\ block_wrote = BlockSize
  /\ pc' = IF Bound THEN "events" ELSE "advance"
  /\ Emit(NoCall)
  /\ UNCHANGED <<fields, left_length, wrote, frames, dispatched>>
  /\ UNCHANGED probe

\* Lines 96 and 100: the message at msg_index exists and is due.
DueWhateverTheTime == InBounds(msg_index)
Due == InBounds(msg_index) /\ TimeAt(msg_index) <= current_time

\* Lines 118-120 and 131-133: the wraparound.  times[loop_index] panics when
\* loop_index is out of bounds.
Wraparound(after) ==
  IF InBounds(loop_index)
    THEN /\ current_time' = TimeAt(loop_index)
         /\ msg_index' = loop_index
         /\ pc' = after
         /\ Emit(NoteOffAllCall)
    ELSE /\ pc' = "panic_index"
         /\ Emit(NoCall)
         /\ UNCHANGED <<current_time, msg_index>>

\* Lines 101-123: the match on the due message.
DispatchWhateverTheFlag ==
  LET msg == MessageAt(msg_index) IN
  CASE msg.kind = "Normal" ->
         /\ Emit(MidiCall(msg))
         /\ pc' = "incr"
         /\ UNCHANGED <<current_time, msg_index, loop_index>>
    [] msg.kind = "LoopStart" ->
         /\ loop_index' = msg_index
         /\ Emit(NoCall)
         /\ pc' = "incr"
         /\ UNCHANGED <<current_time, msg_index>>
    [] msg.kind = "LoopEnd" ->
         /\ Wraparound("incr")
         /\ UNCHANGED loop_index
    [] OTHER ->
         /\ Emit(NoCall)
         /\ pc' = "incr"
         /\ UNCHANGED <<current_time, msg_index, loop_index>>

Dispatch ==
  LET msg == MessageAt(msg_index) IN
  CASE msg.kind = "Normal" ->
         /\ Emit(MidiCall(msg))
         /\ pc' = "incr"
         /\ UNCHANGED <<current_time, msg_index, loop_index>>
    [] msg.kind = "LoopStart" /\ play_loop ->
         /\ loop_index' = msg_index
         /\ Emit(NoCall)
         /\ pc' = "incr"
         /\ UNCHANGED <<current_time, msg_index>>
    [] msg.kind = "LoopEnd" /\ play_loop ->
         /\ Wraparound("incr")
         /\ UNCHANGED loop_index
    [] OTHER ->
         /\ Emit(NoCall)
         /\ pc' = "incr"
         /\ UNCHANGED <<current_time, msg_index, loop_index>>

\* Lines 96-123: one iteration of the scan, up to the match.
ScanDispatch ==
  /\ pc = "events"
  /\ Due
  /\ Dispatch
  /\ dispatched' = IF Tracking THEN DispatchedOnceMore(msg_index) ELSE dispatched
  /\ UNCHANGED <<speed, midi_file, play_loop, block_wrote, left_length, wrote, frames>>
  /\ UNCHANGED probe

\* Line 124.
NextIndex(i) == i + 1

ScanIncrement ==
  /\ pc = "incr"
  /\ msg_index' = NextIndex(msg_index)
  /\ pc' = "events"
  /\ Emit(NoCall)
  /\ UNCHANGED <<speed, midi_file, play_loop, block_wrote, current_time, loop_index,
                 left_length, wrote, frames, dispatched>>
  /\ UNCHANGED probe

\* Line 130.
WrapsAtEndWhateverTheFlag == msg_index = NumMessages
WrapsAtEnd == msg_index = NumMessages /\ play_loop

\* Lines 96/100 false (the scan ends) and lines 130-134.
ScanExit ==
  /\ pc = "events"
  /\ ~Due
  /\ IF WrapsAtEnd
       THEN Wraparound("advance")
       ELSE /\ pc' = "advance"
            /\ Emit(NoCall)
            /\ UNCHANGED <<current_time, msg_index>>
  /\ UNCHANGED <<speed, midi_file, play_loop, block_wrote, loop_index, left_length,
                 wrote, frames, dispatched>>
  /\ UNCHANGED probe

\* Lines 72-73: speed * block_size / sample_rate, in ticks.
BlockAdvanceStoppingAtEnd ==
  IF Bound /\ msg_index < NumMessages THEN speed * BlockDuration ELSE 0
BlockAdvanceIgnoringSpeed == BlockDuration
BlockAdvance == speed * BlockDuration

\* Lines 71-73.
AdvanceBlock ==
  /\ pc = "advance"
  /\ block_wrote' = 0
  /\ current_time' = current_time + BlockAdvance
  /\ pc' = "chunk"
  /\ Emit(NoCall)
  /\ UNCHANGED <<speed, midi_file, play_loop, msg_index, loop_index, left_length, wrote,
                 frames, dispatched>>
  /\ UNCHANGED probe

\* Lines 76-78.
RemainingOfBuffers == left_length - wrote
Remaining == Min(BlockSize - block_wrote, left_length - wrote)

\* Lines 76-86: the synthesizer renders the rest of the block or of the buffers.
SynthRender ==
  /\ \/ pc = "chunk"
     \/ pc = "render" /\ wrote < left_length /\ block_wrote # BlockSize
  /\ block_wrote' = block_wrote + Remaining
  /\ wrote' = wrote + Remaining
  /\ pc' = "render"
  /\ Emit(RenderFrames(Remaining))
  /\ Counted(Remaining)
  /\ UNCHANGED <<speed, midi_file, play_loop, current_time, msg_index, loop_index,
                 left_length, dispatched>>
  /\ UNCHANGED probe

\* render called with buffers of l and r frames, by a caller that takes no notes.
Render(l, r) ==
  /\ RenderCall(l, r)
  /\ UNCHANGED probe

RenderStep ==
  \/ RenderReturn
  \/ BeginBlock
  \/ ScanDispatch
  \/ ScanIncrement
  \/ ScanExit
  \/ AdvanceBlock
  \/ SynthRender

\* ---------------------------------------------------------------- the program
Next ==
  \/ \E f \in MidiFiles, looping \in BOOLEAN : Play(f, looping)
  \/ Stop
  \/ \E value \in -1..MaxSpeed : SetSpeed(value)
  \/ \E l, r \in 0..MaxFrames : Render(l, r)
  \/ RenderReturn
  \/ BeginBlock
  \/ ScanDispatch
  \/ ScanIncrement
  \/ ScanExit
  \/ AdvanceBlock
  \/ SynthRender

Spec == Init /\ [][Next]_vars

\* A call in progress keeps running: the thread inside render is not suspended.
LiveSpec == Spec /\ WF_vars(RenderStep)

\* ---------------------------------------------------------------- one session
\* One playback session at a constant speed: the state new, set_speed(s) and
\* play(f, looping) leave, then render calls only, which go on for ever (a call of
\* at least one frame is made again and again).
SessionInit ==
  \E f \in MidiFiles, looping \in BOOLEAN, s \in 0..MaxSpeed :
    /\ speed = s
    /\ midi_file = <<f>>
    /\ play_loop = looping
    /\ block_wrote = BlockSize
    /\ current_time = 0
    /\ msg_index = 0
    /\ loop_index = 0
    /\ pc = "idle"
    /\ left_length = 0
    /\ wrote = 0
    /\ call = ResetCall
    /\ frames = 0
    /\ dispatched = NoneDispatched
    /\ log = <<>>
    /\ probe = [ProbeOff EXCEPT !.mode = "session"]

RenderEmpty == Render(0, 0)
RenderSome == \E n \in 1..MaxFrames : Render(n, n)

SessionNext ==
  \/ RenderEmpty
  \/ RenderSome
  \/ RenderReturn
  \/ BeginBlock
  \/ ScanDispatch
  \/ ScanIncrement
  \/ ScanExit
  \/ AdvanceBlock
  \/ SynthRender

SessionSpec ==
  SessionInit /\ [][SessionNext]_vars /\ WF_vars(RenderStep) /\ SF_vars(RenderSome)

\* ---------------------------------------------------------------- chunking compared
\* From any state of a session between calls, one render call of probe.total
\* frames is run to its return and its outcome noted; the fields are put back as
\* they were at the start, and render calls whose lengths sum to probe.total
\* are run from there; probe.calls counts those of at least one frame.
ChunkInit ==
  \E f \in MidiFiles, looping \in BOOLEAN, s \in 0..MaxSpeed :
    /\ speed = s
    /\ midi_file = <<f>>
    /\ play_loop = looping
    /\ block_wrote = BlockSize
    /\ current_time = 0
    /\ msg_index = 0
    /\ loop_index = 0
    /\ pc = "idle"
    /\ left_length = 0
    /\ wrote = 0
    /\ call = ResetCall
    /\ frames = 0
    /\ dispatched = NoneDispatched
    /\ log = <<>>
    /\ probe = [ProbeOff EXCEPT !.mode = "before"]

\* A render call before the comparison starts.
RenderBefore(n) ==
  /\ probe.mode = "before"
  /\ Render(n, n)

\* The single call of total frames starts.
RenderSingle(total) ==
  /\ probe.mode = "before"
  /\ RenderCall(total, total)
  /\ probe' = [probe EXCEPT !.mode = "single", !.start = fields, !.total = total]

\* The single call has returned: note its outcome and put the fields back.
Rewind ==
  /\ probe.mode = "single"
  /\ pc = "idle"
  /\ probe' = [probe EXCEPT !.mode = "chunks", !.left = probe.total,
                             !.single = <<fields, log>>]
  /\ speed' = probe.start[1]
  /\ midi_file' = probe.start[2]
  /\ play_loop' = probe.start[3]
  /\ block_wrote' = probe.start[4]
  /\ current_time' = probe.start[5]
  /\ msg_index' = probe.start[6]
  /\ loop_index' = probe.start[7]
  /\ log' = <<>>
  /\ call' = NoCall
  /\ UNCHANGED <<pc, left_length, wrote, frames, dispatched>>

\* One of the calls whose lengths sum to total.
RenderChunk(n) ==
  /\ probe.mode = "chunks"
  /\ n <= probe.left
  /\ RenderCall(n, n)
  /\ probe' = [probe EXCEPT !.left = probe.left - n,
                             !.calls = IF n > 0 THEN probe.calls + 1 ELSE probe.calls]

ChunkNext ==
  \/ \E n \in 0..MaxFrames : RenderBefore(n)
  \/ \E total \in 1..MaxFrames : RenderSingle(total)
  \/ Rewind
  \/ \E n \in 0..MaxFrames : RenderChunk(n)
  \/ RenderReturn
  \/ BeginBlock
  \/ ScanDispatch
  \/ ScanIncrement
  \/ ScanExit
  \/ AdvanceBlock
  \/ SynthRender

ChunkSpec == ChunkInit /\ [][ChunkNext]_vars

\* ---------------------------------------------------------------- state predicates
Running == pc \in {"render", "events", "incr", "advance", "chunk"}
InDispatch == pc \in {"events", "incr"}
\* The scan stands on a due LoopEnd with looping enabled: the next step dispatches it.
LoopEndDue ==
  pc = "events" /\ Due /\ MessageAt(msg_index).kind = "LoopEnd" /\ play_loop
\* The scan has ended at the end of the sequence with looping enabled.
ImplicitWrapDue ==
  pc = "events" /\ ~Due /\ WrapsAtEnd /\ InBounds(loop_index)
\* The cursor the scan resumes with after a LoopEnd: lines 118-119, then line 124.
AfterLoopEnd ==
  [current_time |-> TimeAt(loop_index), msg_index |-> NextIndex(loop_index)]
\* The last step forwarded a message to the synthesizer.
Forwarding == call.op = "process_midi_message"
\* Finished: a sequence is bound, looping is off and every message is consumed.
Finished == Bound /\ ~play_loop /\ msg_index = NumMessages

\* ---------------------------------------------------------------- claims

\* C1: every dispatch cycle (process_events) finishes after finitely many steps,
\* and so every render call that was accepted returns.  The first half alone
\* is stated here: a cycle that is entered is left again.
C1_DispatchCycleFinishes == InDispatch ~> ~InDispatch

\* C2: chunking is transparent.  When render calls whose lengths sum to total have
\* returned, the fields (current_time, msg_index, loop_index, block_wrote and the
\* rest) and the ordered renderer calls, frames rendered back to back counted
\* together, are those the single call of total frames left.
C2_ChunkingTransparent ==
  (probe.mode = "chunks" /\ probe.left = 0 /\ pc = "idle") =>
    <<fields, log>> = probe.single

\* Three frames asked for in more than one call, across a block boundary, with a
\* message forwarded and a wraparound among the calls compared.
C2_Witness ==
  /\ probe.mode = "chunks" /\ probe.left = 0 /\ pc = "idle"
  /\ probe.total = 3 /\ probe.calls >= 2
  /\ \E i, j \in 1..Len(log) :
       log[i].op = "process_midi_message" /\ log[j].op = "note_off_all"

\* C3: observed between calls, while a sequence is bound with looping enabled,
\* end_of_sequence() is false.
C3_NeverFinishedWhileLooping ==
  (pc = "idle" /\ Bound /\ play_loop) => ~end_of_sequence

\* C4: dispatching a LoopEnd with looping enabled resets sequence-time to the
\* anchor's timestamp, calls note_off_all(false) and rewinds the next index to the
\* anchor index, so that the next message the scan evaluates is the one at the
\* anchor index.
C4_LoopEndRewindsToAnchor ==
  [][ /\ LoopEndDue =>
          /\ current_time' = TimeAt(loop_index)
          /\ msg_index' = loop_index
          /\ call' = NoteOffAllCall
      /\ (pc = "incr" /\ call = NoteOffAllCall /\ pc' = "events") =>
          msg_index' = loop_index ]_vars

\* C5: with looping enabled and speed > 0, each time the cursor wraps at a LoopEnd
\* every ChannelEvent whose index lies in [loop anchor, LoopEnd index) is forwarded
\* to the renderer again under continued rendering.  Stated for the loops whose
\* LoopEnd lies after the anchor in time, where the dispatch cycle ends and render
\* calls do go on.
C5_LoopRegionReplayed ==
  \A i \in 0..(MaxLen - 1) :
    [](( /\ speed > 0 /\ LoopEndDue
         /\ TimeAt(msg_index) > TimeAt(loop_index)
         /\ loop_index <= i /\ i < msg_index
         /\ MessageAt(i).kind = "Normal" )
       => <>(pc = "incr" /\ msg_index = i /\ Forwarding))

\* C6: with looping enabled, when the scan ends at the end of the sequence the
\* wraparound fires: sequence-time becomes the anchor's timestamp, the next index
\* the anchor index, note_off_all(false) is called, and the cursor is the one an
\* explicit LoopEnd at that point would leave.
C6_ImplicitWrapLikeLoopEnd ==
  [][ ImplicitWrapDue =>
        /\ current_time' = TimeAt(loop_index)
        /\ msg_index' = loop_index
        /\ call' = NoteOffAllCall
        /\ [current_time |-> current_time', msg_index |-> msg_index'] = AfterLoopEnd ]_vars

\* C7: with looping disabled, end_of_sequence() turns true in the step that moves
\* the next index to the sequence length, and from then on, until play or stop
\* (the steps that reset the synthesizer), the index stays at the length,
\* end_of_sequence() stays true and no message is forwarded.
C7_FinishedIsTerminal ==
  [][ (Bound /\ ~play_loop /\ call'.op # "reset") =>
        /\ (~end_of_sequence /\ end_of_sequence') =>
              (pc = "incr" /\ msg_index' = NumMessages)
        /\ Finished =>
              (Finished' /\ end_of_sequence' /\ msg_index' = msg_index /\ ~Forwarding') ]_vars

\* A block starts while the sequence is Finished and has messages.
C7_Witness ==
  /\ Finished /\ NumMessages > 0
  /\ pc = "render" /\ wrote < left_length /\ block_wrote = BlockSize

\* C8: apart from the two precondition violations no call aborts: every index
\* into times and messages is in bounds when it is used.
C8_NoIndexOutOfBounds == pc # "panic_index"

\* C9: a precondition violation aborts before any effect: the step into either
\* panic changes no field, dispatches nothing and renders nothing; a negative
\* speed is never stored.
C9_AbortBeforeEffect ==
  [][ /\ pc' \in {"panic_buffers", "panic_speed"} =>
          (fields' = fields /\ call' = NoCall /\ frames' = frames)
      /\ speed' >= 0 ]_vars

\* render is rejected in the middle of a block of a sequence being played.
C9_Witness ==
  pc = "panic_buffers" /\ Bound /\ msg_index > 0 /\ block_wrote = 1


\* C10: with looping disabled and a constant speed > 0, get_position() never
\* decreases, and whenever render has returned it equals speed * BlockDuration *
\* the number of blocks started, which is frames / BlockSize rounded up: speed *
\* frames / sample_rate once the frames make up whole blocks.
BlocksStarted(n) == (n + BlockSize - 1) \div BlockSize
C10_PositionTracksFrames ==
  [][ (~play_loop /\ speed > 0) =>
        /\ get_position' >= get_position
        /\ pc' = "idle" =>
              get_position' = speed * BlockDuration * BlocksStarted(frames') ]_vars

\* Three frames rendered at speed 2: the second block has started.
C10_Witness ==
  /\ ~play_loop /\ speed = 2 /\ pc = "idle" /\ frames = 3
  /\ get_position = 4 * BlockDuration /\ probe.mode = "session"

Freeze == SetSpeed(0)

FreezeNext ==
  \/ Freeze
  \/ RenderEmpty
  \/ RenderSome
  \/ RenderReturn
  \/ BeginBlock
  \/ ScanDispatch
  \/ ScanIncrement
  \/ ScanExit
  \/ AdvanceBlock
  \/ SynthRender

FreezeSpec ==
  SessionInit /\ [][FreezeNext]_vars /\ WF_vars(RenderStep) /\ SF_vars(RenderSome)

\* The dispatch cycle of a block begun at speed 0 has returned.
CycleDoneFrozen == speed = 0 /\ pc = "advance"

\* C12 as stated: once a dispatch cycle has run at speed 0, no message is
\* forwarded to the renderer any more while speed stays 0, with looping enabled
\* or disabled.
C12_NothingForwardedAtSpeedZero == [](CycleDoneFrozen => [](~Forwarding))

\* C12: with looping disabled, once a dispatch cycle has run at speed 0, no
\* message is forwarded to the renderer any more while speed stays 0.
C12_NothingForwardedOnceSettled ==
  []((CycleDoneFrozen /\ ~play_loop) => [](~Forwarding))

\* Frozen with looping disabled, in the second block or a later one: one message
\* was forwarded and one that is not yet due is still ahead.
C12_Witness ==
  /\ CycleDoneFrozen /\ ~play_loop /\ frames >= BlockSize
  /\ 0 < msg_index /\ msg_index < NumMessages
  /\ MessageAt(0).kind = "Normal" /\ MessageAt(msg_index).kind = "Normal"

\* C13: with no sequence bound (before any play, or after stop) no step of a
\* render call aborts on an index, forwards a message or calls note_off_all; the
\* dispatch scan is never entered, msg_index and loop_index keep their values and
\* end_of_sequence() is true.
C13_IdleRenderIsInert ==
  [][ (~Bound /\ ~Bound') =>
        /\ pc' \notin {"events", "incr", "panic_index"}
        /\ call'.op \notin {"process_midi_message", "note_off_all"}
        /\ msg_index' = msg_index /\ loop_index' = loop_index
        /\ end_of_sequence' ]_vars

\* After stop in the middle of a looping sequence, a block has started and its
\* frames have been rendered.
C13_Witness ==
  /\ ~Bound /\ pc = "render" /\ call.op = "render" /\ block_wrote < BlockSize
  /\ play_loop /\ msg_index > 0 /\ loop_index > 0

\* The next step of the running call hands frames to the synthesizer.
AboutToRender ==
  \/ pc = "chunk"
  \/ pc = "render" /\ wrote < left_length /\ block_wrote # BlockSize

\* C14: play, in whatever state and at whatever block progress it is called, sets
\* sequence-time, next index and loop anchor to 0, resets the renderer and marks
\* the block as fully consumed; and whenever frames of the bound sequence are about
\* to be rendered, every message with timestamp <= 0 has been dispatched since that
\* play: the first render call of at least one frame dispatches them before its
\* first frame.
C14_PlayRestartsAtZero ==
  /\ [][ (call'.op = "reset" /\ Bound') =>
           /\ current_time' = 0 /\ msg_index' = 0 /\ loop_index' = 0
           /\ block_wrote' = BlockSize /\ call' = ResetCall ]_vars
  /\ []( (Bound /\ AboutToRender) =>
           \A i \in 0..(MaxLen - 1) :
             (InBounds(i) /\ TimeAt(i) <= 0) => dispatched[i] >= 1 )

\* The first block after a play at speed 2: both messages at time 0 were
\* dispatched, the one at time 1 was not, and no frame is rendered yet.
C14_Witness ==
  /\ Bound /\ pc = "chunk" /\ speed = 2 /\ current_time = 2 * BlockDuration
  /\ NumMessages = 3 /\ TimeAt(1) = 0 /\ TimeAt(2) = 1
  /\ dispatched = [i \in 0..(MaxLen - 1) |-> IF i < 2 THEN 1 ELSE 0]

\* Every message whose timestamp has been reached was dispatched since play.
AllDueDispatched ==
  \A i \in 0..(MaxLen - 1) :
    (InBounds(i) /\ TimeAt(i) <= current_time) => dispatched[i] >= 1

\* C15: events are dispatched only at block starts, in index order and never
\* early.  A message is dispatched only by the scan at a block start, as the
\* message at msg_index and with its timestamp <= current_time, a ChannelEvent
\* being forwarded as it is dispatched and the scan moving on by one index;
\* while the scan runs no frame is rendered and the block's time advance has not
\* happened, and when the advance happens every message whose timestamp is reached
\* has been dispatched.  With looping disabled no message is dispatched more than
\* once, and at speed > 0 under continued rendering each one is dispatched, so
\* every ChannelEvent is forwarded exactly once.
C15_DispatchAtBlockStartsOnly ==
  /\ [][ /\ (dispatched' # dispatched \/ Forwarding') =>
              /\ pc = "events" /\ pc' = "incr"
              /\ InBounds(msg_index) /\ TimeAt(msg_index) <= current_time
         /\ (pc = "events" /\ pc' = "incr" /\ MessageAt(msg_index).kind = "Normal") =>
              call' = MidiCall(MessageAt(msg_index))
         /\ (pc = "incr" /\ call # NoteOffAllCall) => msg_index' = msg_index + 1
         /\ InDispatch => (call'.op # "render" /\ block_wrote' = block_wrote) ]_vars
  /\ [](pc = "advance" => AllDueDispatched)
  /\ [](~play_loop => \A i \in 0..(MaxLen - 1) : dispatched[i] <= 1)
  /\ \A i \in 0..(MaxLen - 1) :
       (~play_loop /\ speed > 0 /\ InBounds(i)) => <>[](dispatched[i] = 1)

\* With looping disabled and speed > 0 the three messages of a sequence, the
\* last one a ChannelEvent at time 1, have each been dispatched once, over more
\* than one block.
C15_Witness ==
  /\ ~play_loop /\ speed > 0 /\ pc = "idle" /\ frames > BlockSize
  /\ NumMessages = 3 /\ MessageAt(2).kind = "Normal" /\ TimeAt(2) = 1
  /\ dispatched = [i \in 0..(MaxLen - 1) |-> 1]

\* C16: with looping disabled LoopStart and LoopEnd are no-ops: the loop anchor is
\* 0, and between play calls the next index never decreases, sequence-time never
\* decreases and is left alone by the dispatch scan, and note_off_all is not called.
C16_LoopMarkersInertWhenNotLooping ==
  /\ [](~play_loop => loop_index = 0)
  /\ [][ (~play_loop /\ call'.op # "reset") =>
           /\ msg_index' >= msg_index
           /\ current_time' >= current_time
           /\ InDispatch => current_time' = current_time
           /\ call' # NoteOffAllCall ]_vars

\* With looping disabled a LoopEnd that follows a LoopStart has just been
\* dispatched.
C16_Witness ==
  /\ Bound /\ ~play_loop /\ pc = "incr" /\ msg_index = 2
  /\ MessageAt(1).kind = "LoopStart" /\ MessageAt(2).kind = "LoopEnd"

\* C17: while a sequence is bound, 0 <= msg_index <= messages.len() and
\* 0 <= block_wrote <= block_size, in every state the calls reach.
C17_CursorInRange ==
  Bound =>
    /\ 0 <= msg_index /\ msg_index <= NumMessages
    /\ 0 <= block_wrote /\ block_wrote <= BlockSize

\* Both cursors at their upper ends: a sequence of MaxLen messages is consumed
\* and the block is used up.
C17_Witness ==
  /\ Bound /\ pc = "idle" /\ NumMessages = MaxLen
  /\ msg_index = NumMessages /\ block_wrote = BlockSize /\ current_time > 0

\* C18: while a sequence with at least one message is bound, loop_index <=
\* msg_index and loop_index < messages.len(), between calls and within them, so
\* that times[loop_index] is in bounds at a wraparound and a wraparound never
\* moves msg_index forward.
C18_AnchorBehindCursor ==
  /\ []( (Bound /\ NumMessages > 0) =>
           (loop_index <= msg_index /\ loop_index < NumMessages /\ pc # "panic_index") )
  /\ [][ (Bound /\ NumMessages > 0 /\ call' = NoteOffAllCall) =>
           msg_index' <= msg_index ]_vars

\* Between calls, after the scan wrapped from the end of a sequence of three
\* messages back to a LoopStart at index 1.
C18_Witness ==
  /\ Bound /\ play_loop /\ pc = "idle" /\ NumMessages = 3
  /\ loop_index = 1 /\ msg_index = 1

\* C19: play and stop leave speed as it is; stop changes nothing but the bound
\* sequence and the renderer (current_time, msg_index, loop_index, play_loop and
\* block_wrote keep their values); set_speed with a value >= 0 changes speed only.
C19_FrameConditions ==
  [][ /\ call'.op = "reset" => speed' = speed
      /\ (call'.op = "reset" /\ ~Bound') =>
            UNCHANGED <<play_loop, block_wrote, current_time, msg_index, loop_index>>
      /\ (pc = "idle" /\ pc' = "idle" /\ call'.op = "none") =>
            UNCHANGED <<midi_file, play_loop, block_wrote, current_time, msg_index,
                        loop_index>> ]_vars

\* stop has just been called at speed 2 in the middle of a block and of a sequence.
C19_Witness ==
  /\ ~Bound /\ call = ResetCall /\ speed = 2
  /\ msg_index > 0 /\ current_time > 0 /\ block_wrote = 1

\* C20: sequence-time is not clamped.  With no sequence bound, and with looping
\* disabled and every message consumed, each block that starts adds speed *
\* BlockDuration to get_position() and nothing else changes it, so the position
\* passes the last message's timestamp and keeps growing with the blocks.
C20_PositionNotClamped ==
  [][ ((~Bound \/ Finished) /\ call'.op # "reset") =>
        /\ pc = "advance" => get_position' = get_position + speed * BlockDuration
        /\ pc # "advance" => get_position' = get_position
        /\ (pc = "events" /\ Finished) => pc' = "advance"
        /\ (pc = "render" /\ wrote < left_length /\ block_wrote = BlockSize) =>
              pc' \in {"events", "advance"} ]_vars

\* A Finished sequence whose position is more than a block past its last message.
C20_Witness ==
  /\ Finished /\ NumMessages > 0 /\ pc = "chunk" /\ speed > 0
  /\ get_position > TimeAt(NumMessages - 1) + speed * BlockDuration

====
